---- MODULE Spec2Model ----
(***************************************************************************)
(* Model of chainer-glow's training script (run/train.py) and of its       *)
(* optimizer wrapper (run/optimizer.py).                                   *)
(*                                                                         *)
(* Three specifications share the variables below:                         *)
(*   Spec            one run of train.py's main()                          *)
(*   SpecOptimizer   an Optimizer object under arbitrary calls             *)
(*   SpecPreprocess  one call of preprocess()                              *)
(*                                                                         *)
(* Learning rates are Python floats, and mu_s computes them with the       *)
(* rounding of IEEE binary64 after every operation, in the order the code  *)
(* evaluates its expression.  A value preprocess returns is the exact      *)
(* fraction num / den: its operations on 8-bit pixels and powers of two    *)
(* are exact in floating point.                                            *)
(***************************************************************************)
EXTENDS Integers, Sequences, FiniteSets, TLC

VARIABLES
    \* ---- Optimizer (optimizer.py) ----
    mu_i,                   \* self.mu_i, a double
    mu_f,                   \* self.mu_f, a double
    n,                      \* self.n
    alpha,                  \* self.optimizer.alpha (hyperparam.alpha), a double
    update_calls,           \* number of Optimizer.update calls so far
    adam_t,                 \* number of self.optimizer.update() calls that
                            \* have returned
    adam_alpha,             \* alpha the last of them ran with
    update_arg,             \* training_step of the last update / anneal call
    \* ---- main (train.py) ----
    pc,                     \* position of main
    args,                   \* parsed command line
    failed,                 \* calls of main that have failed so far
    exception,              \* exception that ended main, or "none"
    images,                 \* the list of preprocessed arrays (their ndim),
                            \* then the array made of them: [ndim]
    image_size,             \* len(hyperparams.image_size), line 144
    num_batches,            \* len(iterator)
    iteration,              \* loop variable of line 168
    batch_index,            \* loop variable of lines 159 and 174; at the head
                            \* of the loop of line 174, the index bound next
    current_training_step,  \* line 164
    saves,                  \* number of encoder.save calls so far
    since_save,             \* parameter updates since the last encoder.save
    \* ---- preprocess (train.py) ----
    image,                  \* argument: [ndim, pixel]
    num_bits_x,             \* argument
    result                  \* what the call returned or raised

optvars == <<mu_i, mu_f, n, alpha, update_calls, adam_t, adam_alpha,
             update_arg>>
mainvars == <<pc, args, failed, exception, images, image_size, num_batches,
              iteration, batch_index, current_training_step, saves,
              since_save>>
prevars == <<image, num_bits_x, result>>
vars == <<optvars, mainvars, prevars>>

(***************************************************************************)
(* Bounds of the model.                                                    *)
(***************************************************************************)
MaxN == 4           \* cycle lengths 1..MaxN in SpecOptimizer
MaxRate == 2        \* mu_i, mu_f among m / 10000, m in 1..MaxRate
MaxStep == 8        \* training steps 0..MaxStep in SpecOptimizer
MaxUpdates == 1     \* update calls of one Optimizer in SpecOptimizer
MaxIter == 2        \* args.total_iteration in 0..MaxIter
MaxBatches == 101   \* len(iterator) in 0..MaxBatches, or past a peak
MaxFiles == 2       \* dataset files read by main
MaxNdim == 5        \* image.ndim in 1..MaxNdim

None == 0 - 1       \* Python's None; also the value of a variable not yet bound

(***************************************************************************)
(* Python's float: IEEE binary64, every operation rounded to nearest, ties *)
(* to even.  TLC's integers have 32 bits, so a significand is a natural    *)
(* number held as its digits in base 2^15, least significant first, with   *)
(* no leading zero digit (<<>> is 0).  A number is sign * mant * 2^exp; a  *)
(* double is such a number with mant = 0 or 2^52 <= mant < 2^53, so that   *)
(* equal doubles are equal records.  Infinities, NaN, subnormals and the   *)
(* sign of zero are left out: no value of the model comes near them.       *)
(***************************************************************************)
LimbBits == 15
LimbBase == 2 ^ LimbBits
MantBits == 53

Limb(a, i) == IF i <= Len(a) THEN a[i] ELSE 0

RECURSIVE BigNorm(_)
BigNorm(a) ==
    IF a = <<>> THEN a
    ELSE IF a[Len(a)] = 0 THEN BigNorm(SubSeq(a, 1, Len(a) - 1)) ELSE a

RECURSIVE BigFromInt(_)
BigFromInt(i) ==
    IF i = 0 THEN <<>> ELSE <<i % LimbBase>> \o BigFromInt(i \div LimbBase)

RECURSIVE BigAddFrom(_, _, _, _)
BigAddFrom(a, b, i, carry) ==
    IF i > Len(a) /\ i > Len(b)
    THEN IF carry = 0 THEN <<>> ELSE <<carry>>
    ELSE LET s == Limb(a, i) + Limb(b, i) + carry
         IN  <<s % LimbBase>> \o BigAddFrom(a, b, i + 1, s \div LimbBase)

BigAdd(a, b) == BigAddFrom(a, b, 1, 0)

\* a - b for a >= b.
RECURSIVE BigSubFrom(_, _, _, _)
BigSubFrom(a, b, i, borrow) ==
    IF i > Len(a) THEN <<>>
    ELSE LET d == a[i] - Limb(b, i) - borrow
         IN  IF d < 0
             THEN <<d + LimbBase>> \o BigSubFrom(a, b, i + 1, 1)
             ELSE <<d>> \o BigSubFrom(a, b, i + 1, 0)

BigSub(a, b) == BigNorm(BigSubFrom(a, b, 1, 0))

RECURSIVE BigCmpFrom(_, _, _)
BigCmpFrom(a, b, i) ==
    IF i = 0 THEN 0
    ELSE IF a[i] < b[i] THEN 0 - 1
    ELSE IF a[i] > b[i] THEN 1
    ELSE BigCmpFrom(a, b, i - 1)

\* -1, 0 or 1 as a < b, a = b or a > b.
BigCmp(a, b) ==
    IF Len(a) < Len(b) THEN 0 - 1
    ELSE IF Len(a) > Len(b) THEN 1
    ELSE BigCmpFrom(a, b, Len(a))

\* a * m for 0 <= m <= 2^15.
RECURSIVE BigMulSmallFrom(_, _, _, _)
BigMulSmallFrom(a, m, i, carry) ==
    IF i > Len(a) THEN BigFromInt(carry)
    ELSE LET p == a[i] * m + carry
         IN  <<p % LimbBase>> \o BigMulSmallFrom(a, m, i + 1, p \div LimbBase)

BigMulSmall(a, m) == IF m = 0 THEN <<>> ELSE BigMulSmallFrom(a, m, 1, 0)

\* a * 2^(15 * w)
BigShiftLimbs(a, w) == IF a = <<>> THEN a ELSE [i \in 1..w |-> 0] \o a

RECURSIVE BigMulFrom(_, _, _)
BigMulFrom(a, b, i) ==
    IF i > Len(b) THEN <<>>
    ELSE BigAdd(BigShiftLimbs(BigMulSmall(a, b[i]), i - 1),
                BigMulFrom(a, b, i + 1))

BigMul(a, b) == BigMulFrom(a, b, 1)

\* a * 2^s
BigShiftLeft(a, s) ==
    BigShiftLimbs(BigMulSmall(a, 2 ^ (s % LimbBits)), s \div LimbBits)

\* Quotient and remainder of a by d, for 1 <= d < 2^16.
RECURSIVE BigDivSmallFrom(_, _, _, _)
BigDivSmallFrom(a, d, i, r) ==
    IF i = 0 THEN [quot |-> <<>>, rem |-> r]
    ELSE LET cur == r * LimbBase + a[i]
             rest == BigDivSmallFrom(a, d, i - 1, cur % d)
         IN  [quot |-> rest.quot \o <<cur \div d>>, rem |-> rest.rem]

BigDivSmall(a, d) ==
    LET x == BigDivSmallFrom(a, d, Len(a), 0)
    IN  [quot |-> BigNorm(x.quot), rem |-> x.rem]

RECURSIVE IntBitLen(_)
IntBitLen(x) == IF x = 0 THEN 0 ELSE 1 + IntBitLen(x \div 2)

BigBitLen(a) ==
    IF a = <<>> THEN 0 ELSE LimbBits * (Len(a) - 1) + IntBitLen(a[Len(a)])

\* floor(a / 2^s), and whether a nonzero bit was dropped.
BigShiftRight(a, s) ==
    LET w == s \div LimbBits
        low == SubSeq(a, 1, IF w < Len(a) THEN w ELSE Len(a))
        high == SubSeq(a, w + 1, Len(a))
        d == BigDivSmall(high, 2 ^ (s % LimbBits))
    IN  [quot |-> d.quot,
         sticky |-> d.rem # 0 \/ \E i \in 1..Len(low) : low[i] # 0]

Zero == [sign |-> 1, mant |-> <<>>, exp |-> 0]

IsZero(x) == x.mant = <<>>

\* The double nearest to sign * (mant + e) * 2^exp, ties to even, where
\* 0 < e < 1 when sticky and e = 0 otherwise.
Round(sign, mant, exp, sticky) ==
    LET len == BigBitLen(mant)
    IN  IF len = 0 THEN Zero
        ELSE IF len <= MantBits
        THEN [sign |-> sign,
              mant |-> BigShiftLeft(mant, MantBits - len),
              exp |-> exp - (MantBits - len)]
        ELSE LET s == len - MantBits
                 t == BigShiftRight(mant, s - 1)
                 guard == t.quot[1] % 2
                 q == BigDivSmall(t.quot, 2).quot
                 up == guard = 1 /\ (t.sticky \/ sticky \/ q[1] % 2 = 1)
                 r == IF up THEN BigAdd(q, <<1>>) ELSE q
             IN  IF BigBitLen(r) > MantBits
                 THEN [sign |-> sign, mant |-> BigDivSmall(r, 2).quot,
                       exp |-> exp + s + 1]
                 ELSE [sign |-> sign, mant |-> r, exp |-> exp + s]

\* x + y and x * y as numbers, not rounded.
ExactAdd(x, y) ==
    IF IsZero(x) THEN y
    ELSE IF IsZero(y) THEN x
    ELSE LET e == IF x.exp < y.exp THEN x.exp ELSE y.exp
             mx == BigShiftLeft(x.mant, x.exp - e)
             my == BigShiftLeft(y.mant, y.exp - e)
             c == BigCmp(mx, my)
         IN  IF x.sign = y.sign
             THEN [sign |-> x.sign, mant |-> BigAdd(mx, my), exp |-> e]
             ELSE IF c = 0 THEN Zero
             ELSE IF c > 0
             THEN [sign |-> x.sign, mant |-> BigSub(mx, my), exp |-> e]
             ELSE [sign |-> y.sign, mant |-> BigSub(my, mx), exp |-> e]

ExactMul(x, y) ==
    IF IsZero(x) \/ IsZero(y) THEN Zero
    ELSE [sign |-> x.sign * y.sign, mant |-> BigMul(x.mant, y.mant),
          exp |-> x.exp + y.exp]

ToDouble(x) == Round(x.sign, x.mant, x.exp, FALSE)

FNeg(x) == IF IsZero(x) THEN x ELSE [x EXCEPT !.sign = 0 - x.sign]
FAbs(x) == [x EXCEPT !.sign = 1]

\* float + float, float - float, float * float
FAdd(x, y) == ToDouble(ExactAdd(x, y))
FSub(x, y) == ToDouble(ExactAdd(x, FNeg(y)))
FMul(x, y) == ToDouble(ExactMul(x, y))

\* float(i) for an int of TLC's range
FromInt(i) ==
    IF i = 0 THEN Zero
    ELSE IF i < 0 THEN Round(0 - 1, BigFromInt(0 - i), 0, FALSE)
    ELSE Round(1, BigFromInt(i), 0, FALSE)

\* int / int (true division) for k >= 0 and 1 <= d < 2^16: the quotient of
\* k * 2^75 by d has at least 59 bits, and its remainder is the sticky bit.
IntTrueDiv(k, d) ==
    LET q == BigDivSmall(BigShiftLimbs(BigFromInt(k), 5), d)
    IN  Round(1, q.quot, 0 - 5 * LimbBits, q.rem # 0)

\* -1, 0 or 1 as x < y, x = y or x > y.
Cmp(x, y) ==
    LET d == ExactAdd(x, FNeg(y)) IN IF IsZero(d) THEN 0 ELSE d.sign

\* 2^e as a double
Pow2(e) == Round(1, <<1>>, e, FALSE)

FMin(x, y) == IF Cmp(x, y) <= 0 THEN x ELSE y
FMax(x, y) == IF Cmp(x, y) <= 0 THEN y ELSE x

(***************************************************************************)
(* optimizer.py                                                            *)
(***************************************************************************)
DefaultMuI == FMul(FromInt(3), IntTrueDiv(1, 1000))     \* mu_i=3.0 * 1e-3
DefaultMuF == FMul(FromInt(1), IntTrueDiv(1, 10000))    \* mu_f=1.0 * 1e-4
DefaultN == 10000                                       \* n=10000

\* mu_s with the else branch missing: the rate keeps rising for the whole cycle.
mu_s_no_decrease(self, training_step) ==
    LET step_in_cycle_num == training_step % self.n
    IN  FAdd(self.mu_f,
             FMul(FMul(FSub(self.mu_i, self.mu_f), FromInt(2)),
                  IntTrueDiv(step_in_cycle_num, self.n)))

\* mu_s with k / n as Python 2's integer division, which is 0 for k < n.
mu_s_integer_division(self, training_step) ==
    LET step_in_cycle_num == training_step % self.n
    IN  IF 2 * step_in_cycle_num < self.n
        THEN FAdd(self.mu_f,
                  FMul(FMul(FSub(self.mu_i, self.mu_f), FromInt(2)),
                       FromInt(step_in_cycle_num \div self.n)))
        ELSE FAdd(self.mu_f,
                  FMul(FMul(FSub(self.mu_i, self.mu_f), FromInt(2)),
                       FSub(FromInt(1),
                            FromInt(step_in_cycle_num \div self.n))))

\* mu_s whose decreasing branch starts from mu_i at k = 0 instead of k = n / 2.
mu_s_asymmetric(self, training_step) ==
    LET step_in_cycle_num == training_step % self.n
    IN  IF 2 * step_in_cycle_num < self.n
        THEN FAdd(self.mu_f,
                  FMul(FMul(FSub(self.mu_i, self.mu_f), FromInt(2)),
                       IntTrueDiv(step_in_cycle_num, self.n)))
        ELSE FSub(self.mu_i,
                  FMul(FMul(FSub(self.mu_i, self.mu_f), FromInt(2)),
                       IntTrueDiv(step_in_cycle_num, self.n)))

\* Optimizer.mu_s.  training_step and self.n are ints: % is exact, and
\* "k < n / 2" compares k with the double n / 2, which is exact: 2 * k < n.
\* The returned expression is evaluated left to right in doubles:
\*   self.mu_f + (((self.mu_i - self.mu_f) * 2.0) * (k / n))
\*   self.mu_f + (((self.mu_i - self.mu_f) * 2.0) * (1.0 - k / n))
mu_s(self, training_step) ==
    LET step_in_cycle_num == training_step % self.n
    IN  IF 2 * step_in_cycle_num < self.n
        THEN FAdd(self.mu_f,
                  FMul(FMul(FSub(self.mu_i, self.mu_f), FromInt(2)),
                       IntTrueDiv(step_in_cycle_num, self.n)))
        ELSE FAdd(self.mu_f,
                  FMul(FMul(FSub(self.mu_i, self.mu_f), FromInt(2)),
                       FSub(FromInt(1),
                            IntTrueDiv(step_in_cycle_num, self.n))))

\* The Optimizer object a method is called on.
self == [mu_i |-> mu_i, mu_f |-> mu_f, n |-> n]

\* Optimizer.anneal_learning_rate
anneal_learning_rate(training_step) ==
    /\ alpha' = mu_s(self, training_step)
    /\ update_arg' = training_step
    /\ UNCHANGED <<mu_i, mu_f, n>>

\* Optimizer.update: Adam's update runs with the alpha in place, and only then
\* is alpha set for training_step.  When self.optimizer.update() raises
\* (adam_returns is FALSE) the exception leaves update before line 50: alpha
\* stays as it is.
update(training_step, adam_returns) ==
    /\ update_calls' = update_calls + 1
    /\ IF adam_returns
       THEN /\ adam_t' = adam_t + 1
            /\ adam_alpha' = alpha
            /\ anneal_learning_rate(training_step)
       ELSE /\ update_arg' = training_step
            /\ UNCHANGED <<mu_i, mu_f, n, alpha, adam_t, adam_alpha>>

\* Optimizer.__init__(model_parameters, mu_i, mu_f, n): Adam is constructed
\* with lr = self.mu_s(0), computed from the fields just assigned.
Optimizer_init(a_mu_i, a_mu_f, a_n) ==
    /\ mu_i' = a_mu_i
    /\ mu_f' = a_mu_f
    /\ n' = a_n
    /\ alpha' = mu_s([mu_i |-> a_mu_i, mu_f |-> a_mu_f, n |-> a_n], 0)
    /\ update_calls' = 0
    /\ adam_t' = 0
    /\ adam_alpha' = None
    /\ update_arg' = None

\* Optimizer.learning_rate
learning_rate == alpha

\* No Optimizer has been constructed.
NoOptimizer ==
    /\ mu_i = None /\ mu_f = None /\ n = None /\ alpha = None
    /\ update_calls = None /\ adam_t = None /\ adam_alpha = None
    /\ update_arg = None

(***************************************************************************)
(* train.py: preprocess                                                    *)
(*                                                                         *)
(* An image is [ndim, pixel]: the number of dimensions of the array and    *)
(* the value of one of its elements (the arithmetic is elementwise).  The  *)
(* result is the exact fraction num / den and the order of the input's     *)
(* axes in the output, or the exception raised.                            *)
(***************************************************************************)
NotCalled ==
    [status |-> "none", num |-> 0, den |-> 1, axes |-> <<>>]
Returned(num, den, axes) ==
    [status |-> "returned", num |-> num, den |-> den, axes |-> axes]
Raised(exc) ==
    [status |-> exc, num |-> 0, den |-> 1, axes |-> <<>>]

\* preprocess without the np.floor of line 70.
preprocess_no_floor(a_image, a_num_bits_x) ==
    LET num_bins_x == 2 ^ a_num_bits_x
        scale == IF a_num_bits_x < 8 THEN 2 ^ (8 - a_num_bits_x) ELSE 1
    IN  IF a_image.ndim = 3
        THEN Returned(2 * a_image.pixel - num_bins_x * scale,
                      2 * num_bins_x * scale, <<2, 0, 1>>)
        ELSE IF a_image.ndim = 4
        THEN Returned(2 * a_image.pixel - num_bins_x * scale,
                      2 * num_bins_x * scale, <<0, 3, 1, 2>>)
        ELSE Raised("NotImplementedError")

\* preprocess(image, num_bits_x).  floored is np.floor(image / 2**(8 - bits))
\* for a pixel >= 0; floored / num_bins_x - 0.5 is the fraction
\* (2 * floored - num_bins_x) / (2 * num_bins_x).
preprocess(a_image, a_num_bits_x) ==
    LET num_bins_x == 2 ^ a_num_bits_x
        floored == IF a_num_bits_x < 8
                   THEN a_image.pixel \div (2 ^ (8 - a_num_bits_x))
                   ELSE a_image.pixel
    IN  IF a_image.ndim = 3
        THEN Returned(2 * floored - num_bins_x, 2 * num_bins_x, <<2, 0, 1>>)
        ELSE IF a_image.ndim = 4
        THEN Returned(2 * floored - num_bins_x, 2 * num_bins_x, <<0, 3, 1, 2>>)
        ELSE Raised("NotImplementedError")

(***************************************************************************)
(* SpecOptimizer: an Optimizer is constructed with mu_i and mu_f among     *)
(* Rates and a cycle length n >= 1, or with every default as main does,    *)
(* and then update and anneal_learning_rate are called in any order with   *)
(* training steps >= 0.                                                    *)
(***************************************************************************)
\* 1e-4, 2e-4, ... as Python reads them, and the two default rates.
Rates == {IntTrueDiv(m, 10000) : m \in 1..MaxRate} \cup {DefaultMuI, DefaultMuF}

\* The first steps, and the peak and the last step of the default cycle.
Steps == (0..MaxStep) \cup {DefaultN \div 2, DefaultN - 1}

MainIdle ==
    /\ pc = "idle" /\ args = None /\ failed = {} /\ exception = "none"
    /\ images = None /\ image_size = None /\ num_batches = None
    /\ iteration = None /\ batch_index = None /\ current_training_step = None
    /\ saves = None /\ since_save = None

PreIdle == image = None /\ num_bits_x = None /\ result = None

InitOptimizer == NoOptimizer /\ MainIdle /\ PreIdle

NewOptimizer ==
    /\ n = None
    /\ \/ \E a_mu_i \in Rates, a_mu_f \in Rates, a_n \in 1..MaxN :
             Optimizer_init(a_mu_i, a_mu_f, a_n)
       \/ Optimizer_init(DefaultMuI, DefaultMuF, DefaultN)
    /\ UNCHANGED <<mainvars, prevars>>

CallUpdate ==
    /\ n # None
    /\ update_calls < MaxUpdates
    /\ \E training_step \in Steps, adam_returns \in BOOLEAN :
          update(training_step, adam_returns)
    /\ UNCHANGED <<mainvars, prevars>>

CallAnneal ==
    /\ n # None
    /\ \E training_step \in Steps : anneal_learning_rate(training_step)
    /\ UNCHANGED <<update_calls, adam_t, adam_alpha, mainvars, prevars>>

NextOptimizer == NewOptimizer \/ CallUpdate \/ CallAnneal

SpecOptimizer == InitOptimizer /\ [][NextOptimizer]_vars

(***************************************************************************)
(* SpecPreprocess: one call of preprocess on an image of 1..MaxNdim        *)
(* dimensions holding an 8-bit pixel, with num_bits_x in 1..8.             *)
(***************************************************************************)
Pixels == 0..255
Bits == 1..8

InitPreprocess ==
    /\ NoOptimizer /\ MainIdle
    /\ image \in [ndim : 1..MaxNdim, pixel : Pixels]
    /\ num_bits_x \in Bits
    /\ result = NotCalled

CallPreprocess ==
    /\ result = NotCalled
    /\ result' = preprocess(image, num_bits_x)
    /\ UNCHANGED <<image, num_bits_x, optvars, mainvars>>

NextPreprocess == CallPreprocess

SpecPreprocess == InitPreprocess /\ [][NextPreprocess]_vars


(***************************************************************************)
(* train.py: main                                                          *)
(*                                                                         *)
(* Every call that can fail (file I/O, numpy, the framework) draws its     *)
(* outcome; a failure is recorded in failed, and what main does with the   *)
(* exception is what the code around the call does with it.  A statement   *)
(* of main itself (an assert, a division, an index) raises when its        *)
(* operands make it raise.                                                 *)
(***************************************************************************)
SaveInterval == 100     \* (batch_index + 1) % 100 == 0
DefaultNumBitsX == 8    \* --num-bits-x, default=8

Formats == {"png", "npy", "jpg"}

\* len(iterator): every count up to MaxBatches, and one that takes an
\* iteration past the peak of the default cycle.
BatchCounts == (0..MaxBatches) \cup {DefaultN \div 2 + 1}

\* A call raised and the exception leaves main: the run ends.
Raise(call, exc) ==
    /\ failed' = failed \cup {call}
    /\ exception' = exc
    /\ pc' = "raised"

\* A statement of main raised, no call having failed: the run ends.
Throw(exc) ==
    /\ exception' = exc
    /\ pc' = "raised"
    /\ UNCHANGED failed

\* The call returned: main goes on.
Goto(label) ==
    /\ pc' = label
    /\ UNCHANGED <<failed, exception>>

Init ==
    /\ NoOptimizer /\ PreIdle
    /\ pc = "mkdir"
    /\ args \in [dataset_format : Formats, total_iteration : 0..MaxIter,
                 num_bits_x : {DefaultNumBitsX}]
    /\ failed = {} /\ exception = "none"
    /\ images = None /\ image_size = None /\ num_batches = None
    /\ iteration = None /\ batch_index = None /\ current_training_step = None
    /\ saves = 0 /\ since_save = 0

\* Lines 90-93: try: os.mkdir(...) except: pass.
MakeSnapshotDir ==
    /\ pc = "mkdir"
    /\ \E ok \in BOOLEAN :
          failed' = IF ok THEN failed ELSE failed \cup {"os.mkdir"}
    /\ pc' = "device"
    /\ UNCHANGED <<exception, args, images, image_size, num_batches, iteration,
                   batch_index, current_training_step, saves, since_save,
                   optvars, prevars>>

\* Lines 95-99: cuda.get_device(...).use() when args.gpu_device >= 0.
UseDevice ==
    /\ pc = "device"
    /\ \E using_gpu \in BOOLEAN, ok \in BOOLEAN :
          IF using_gpu /\ ~ok
          THEN Raise("cuda.get_device", "CUDARuntimeError")
          ELSE Goto("format")
    /\ UNCHANGED <<args, images, image_size, num_batches, iteration,
                   batch_index, current_training_step, saves, since_save,
                   optvars, prevars>>

\* Lines 101-107 and 115: assert args.dataset_format in ["png", "npy"], then
\* images = [].
AssertFormat ==
    /\ pc = "format"
    /\ IF args.dataset_format \in {"png", "npy"}
       THEN Goto("read") /\ images' = <<>>
       ELSE Throw("AssertionError") /\ UNCHANGED images
    /\ UNCHANGED <<args, image_size, num_batches, iteration, batch_index,
                   current_training_step, saves, since_save, optvars, prevars>>

\* Lines 108-111 and 116-119: one file of the dataset is opened, preprocessed
\* and appended to images.  A png file is a 2- or 3-dimensional array, an npy
\* file an array of any number of dimensions; preprocess keeps the number.
ReadFile ==
    /\ pc = "read"
    /\ Len(images) < MaxFiles
    /\ \E ok \in BOOLEAN,
          file \in [ndim : IF args.dataset_format = "png" THEN {2, 3}
                           ELSE {2, 3, 4},
                    pixel : {0, 255}] :
          IF ~ok
          THEN /\ Raise(IF args.dataset_format = "png"
                        THEN "Image.open" ELSE "np.load", "OSError")
               /\ UNCHANGED images
          ELSE LET r == preprocess(file, args.num_bits_x)
               IN  IF r.status = "returned"
                   THEN Goto("read") /\ images' = Append(images, file.ndim)
                   ELSE Raise("preprocess", r.status) /\ UNCHANGED images
    /\ UNCHANGED <<args, image_size, num_batches, iteration, batch_index,
                   current_training_step, saves, since_save, optvars, prevars>>

\* Lines 112-138.  assert len(images) > 0.  np.asanyarray(images) makes one
\* array with an axis more than the files' arrays.  When these do not all
\* have one shape, numpy raises ValueError or, in versions before 1.24,
\* returns a one-axis array of objects and images is bound to it: then, for
\* npy, images.shape[1] at line 123 raises IndexError, and for png np.mean
\* raises on adding arrays of different shapes.  For npy the reshape merges
\* the first two axes.  Then np.mean, np.var, the dataset, its iterator,
\* which yields len(iterator) batches in every pass, and the table printed.
MakeIterator ==
    /\ pc = "read"
    /\ IF Len(images) = 0
       THEN Throw("AssertionError") /\ UNCHANGED <<images, num_batches>>
       ELSE \E one_shape \in BOOLEAN, object_array \in BOOLEAN,
               raising \in {"none", "np.asanyarray", "np.mean", "np.var",
                            "glow.dataset.Dataset", "glow.dataset.Iterator",
                            "print"} :
            IF raising = "np.asanyarray"
            THEN /\ Raise("np.asanyarray", "MemoryError")
                 /\ UNCHANGED <<images, num_batches>>
            ELSE IF (\E i \in 1..Len(images) : images[i] # images[1])
                    \/ (Len(images) > 1 /\ ~one_shape)
            THEN IF ~object_array
                 THEN /\ Raise("np.asanyarray", "ValueError")
                      /\ UNCHANGED <<images, num_batches>>
                 ELSE /\ images' = [ndim |-> 1]
                      /\ IF args.dataset_format = "npy"
                         THEN Throw("IndexError")
                         ELSE Raise("np.mean", "ValueError")
                      /\ UNCHANGED num_batches
            ELSE /\ images' = [ndim |-> IF args.dataset_format = "png"
                                        THEN images[1] + 1 ELSE images[1]]
                 /\ IF raising = "none"
                    THEN Goto("hyperparams")
                    ELSE Raise(raising, IF raising = "print" THEN "OSError"
                                        ELSE "RuntimeError")
                 /\ IF raising \in {"none", "print"}
                    THEN \E len_iterator \in BatchCounts :
                            num_batches' = len_iterator
                    ELSE UNCHANGED num_batches
    /\ UNCHANGED <<args, image_size, iteration, batch_index,
                   current_training_step, saves, since_save, optvars, prevars>>

\* SaveHyperparams with hyperparams.save wrapped the way os.mkdir is.
SaveHyperparams_swallowed ==
    /\ pc = "hyperparams"
    /\ \E raising \in {"none", "Hyperparameters", "hyperparams.save",
                       "hyperparams.print"} :
          /\ image_size' = IF raising = "Hyperparameters" THEN image_size
                           ELSE images.ndim - 2
          /\ IF raising = "none"
             THEN Goto("model")
             ELSE IF raising = "hyperparams.save"
             THEN /\ failed' = failed \cup {"hyperparams.save"}
                  /\ pc' = "model"
                  /\ UNCHANGED exception
             ELSE Raise(raising, IF raising = "Hyperparameters"
                                 THEN "RuntimeError" ELSE "OSError")
    /\ UNCHANGED <<args, images, num_batches, iteration, batch_index,
                   current_training_step, saves, since_save, optvars, prevars>>

\* Lines 140-149: Hyperparameters(), hyperparams.image_size =
\* images.shape[2:], every axis of the array after the first two, then
\* hyperparams.save(args.snapshot_path) and hyperparams.print().
SaveHyperparams ==
    /\ pc = "hyperparams"
    /\ \E raising \in {"none", "Hyperparameters", "hyperparams.save",
                       "hyperparams.print"} :
          /\ image_size' = IF raising = "Hyperparameters" THEN image_size
                           ELSE images.ndim - 2
          /\ IF raising = "none"
             THEN Goto("model")
             ELSE Raise(raising, IF raising = "Hyperparameters"
                                 THEN "RuntimeError" ELSE "OSError")
    /\ UNCHANGED <<args, images, num_batches, iteration, batch_index,
                   current_training_step, saves, since_save, optvars, prevars>>

\* Lines 151-153: Glow(hyperparams, hdf5_path=...), and encoder.to_gpu() when
\* the gpu is used.
BuildModel ==
    /\ pc = "model"
    /\ \E raising \in {"none", "Glow", "encoder.to_gpu"} :
          IF raising = "none"
          THEN Goto("optimizer")
          ELSE Raise(raising, IF raising = "Glow" THEN "OSError"
                              ELSE "CUDARuntimeError")
    /\ UNCHANGED <<args, images, image_size, num_batches, iteration,
                   batch_index, current_training_step, saves, since_save,
                   optvars, prevars>>

\* Line 155: optimizer = Optimizer(encoder), every parameter at its default.
\* When the constructor raises (Adam or its setup, optimizer.py lines 27-29)
\* the name optimizer is never bound: main has no Optimizer.
ConstructOptimizer ==
    /\ pc = "optimizer"
    /\ \E ok \in BOOLEAN :
          IF ok
          THEN /\ Optimizer_init(DefaultMuI, DefaultMuF, DefaultN)
               /\ Goto("initialize")
          ELSE /\ Raise("Optimizer", "RuntimeError")
               /\ UNCHANGED optvars
    /\ UNCHANGED <<args, images, image_size, num_batches, iteration,
                   batch_index, current_training_step, saves, since_save,
                   prevars>>

\* Lines 157-165: the data dependent initialization, when the encoder needs it
\* and the iterator yields a batch, binds batch_index to 0; then
\* current_training_step = 0, and num_pixels reads image_size[0] and
\* image_size[1], an IndexError when image_size has fewer than two entries.
InitializeActnorm ==
    /\ pc = "initialize"
    /\ \E need_initialize \in BOOLEAN, ok \in BOOLEAN :
          LET initializes == need_initialize /\ num_batches > 0
          IN  /\ batch_index' = IF initializes THEN 0 ELSE batch_index
              /\ IF initializes /\ ~ok
                 THEN /\ Raise("encoder.initialize_actnorm_weights",
                               "RuntimeError")
                      /\ UNCHANGED <<current_training_step, iteration>>
                 ELSE /\ current_training_step' = 0
                      /\ IF image_size < 2
                         THEN Throw("IndexError") /\ UNCHANGED iteration
                         ELSE Goto("iteration") /\ iteration' = 0
    /\ UNCHANGED <<args, images, image_size, num_batches, saves, since_save,
                   optvars, prevars>>

\* BeginIteration counting the training steps from 0 in every iteration.
BeginIteration_resets_step ==
    /\ pc = "iteration"
    /\ IF iteration < args.total_iteration
       THEN Goto("batch") /\ batch_index' = 0 /\ current_training_step' = 0
       ELSE Goto("done") /\ UNCHANGED <<batch_index, current_training_step>>
    /\ UNCHANGED <<args, images, image_size, num_batches, iteration, saves,
                   since_save, optvars, prevars>>

\* Lines 168-174: the next iteration starts, or the loop and main end.
BeginIteration ==
    /\ pc = "iteration"
    /\ IF iteration < args.total_iteration
       THEN Goto("batch") /\ batch_index' = 0
       ELSE Goto("done") /\ UNCHANGED batch_index
    /\ UNCHANGED <<args, images, image_size, num_batches, iteration,
                   current_training_step, saves, since_save, optvars, prevars>>

\* Lines 174-198: one batch: forward step, loss, backward, then
\* optimizer.update(current_training_step) and current_training_step += 1.
\* A call before line 196 raises, or optimizer.update does, or none.
TrainBatch ==
    /\ pc = "batch"
    /\ batch_index < num_batches
    /\ \E raising \in {"none", "encoder.forward_step", "optimizer.update"} :
          IF raising = "none"
          THEN /\ update(current_training_step, TRUE)
               /\ current_training_step' = current_training_step + 1
               /\ since_save' = since_save + 1
               /\ Goto("checkpoint")
          ELSE IF raising = "optimizer.update"
          THEN /\ update(current_training_step, FALSE)
               /\ Raise("optimizer.update", "RuntimeError")
               /\ UNCHANGED <<current_training_step, since_save>>
          ELSE /\ Raise("encoder.forward_step", "RuntimeError")
               /\ UNCHANGED <<current_training_step, since_save, optvars>>
    /\ UNCHANGED <<args, images, image_size, num_batches, iteration,
                   batch_index, saves, prevars>>

\* Checkpoint testing the 0-based batch index.
Checkpoint_zero_based ==
    /\ pc = "checkpoint"
    /\ \E printed \in BOOLEAN :
       IF ~printed
       THEN Raise("print", "OSError")
            /\ UNCHANGED <<saves, since_save, batch_index>>
       ELSE IF batch_index % SaveInterval = 0
       THEN \E ok \in BOOLEAN :
               IF ok
               THEN Goto("batch") /\ saves' = saves + 1 /\ since_save' = 0
                    /\ batch_index' = batch_index + 1
               ELSE Raise("encoder.save", "OSError")
                    /\ UNCHANGED <<saves, since_save, batch_index>>
       ELSE Goto("batch") /\ batch_index' = batch_index + 1
            /\ UNCHANGED <<saves, since_save>>
    /\ UNCHANGED <<args, images, image_size, num_batches, iteration,
                   current_training_step, optvars, prevars>>

\* Lines 200-213: the sums and the progress line, which the _float and print
\* calls can fail to produce, then encoder.save when
\* (batch_index + 1) % 100 == 0; the inner loop goes to the next batch.
Checkpoint ==
    /\ pc = "checkpoint"
    /\ \E printed \in BOOLEAN :
       IF ~printed
       THEN Raise("print", "OSError")
            /\ UNCHANGED <<saves, since_save, batch_index>>
       ELSE IF (batch_index + 1) % SaveInterval = 0
       THEN \E ok \in BOOLEAN :
               IF ok
               THEN Goto("batch") /\ saves' = saves + 1 /\ since_save' = 0
                    /\ batch_index' = batch_index + 1
               ELSE Raise("encoder.save", "OSError")
                    /\ UNCHANGED <<saves, since_save, batch_index>>
       ELSE Goto("batch") /\ batch_index' = batch_index + 1
            /\ UNCHANGED <<saves, since_save>>
    /\ UNCHANGED <<args, images, image_size, num_batches, iteration,
                   current_training_step, optvars, prevars>>

\* Lines 215-222: the iterator is exhausted: the means over len(iterator),
\* a division by zero when it is 0, the summary line, and encoder.save.
EndIteration ==
    /\ pc = "batch"
    /\ batch_index = num_batches
    /\ IF num_batches = 0
       THEN Throw("ZeroDivisionError")
            /\ UNCHANGED <<saves, since_save, iteration>>
       ELSE \E raising \in {"none", "print", "encoder.save"} :
               IF raising = "none"
               THEN Goto("iteration") /\ saves' = saves + 1 /\ since_save' = 0
                    /\ iteration' = iteration + 1
               ELSE Raise(raising, "OSError")
                    /\ UNCHANGED <<saves, since_save, iteration>>
    /\ UNCHANGED <<args, images, image_size, num_batches, batch_index,
                   current_training_step, optvars, prevars>>

Next ==
    \/ MakeSnapshotDir
    \/ UseDevice
    \/ AssertFormat
    \/ ReadFile
    \/ MakeIterator
    \/ SaveHyperparams
    \/ BuildModel
    \/ ConstructOptimizer
    \/ InitializeActnorm
    \/ BeginIteration
    \/ TrainBatch
    \/ Checkpoint
    \/ EndIteration

Spec == Init /\ [][Next]_vars

(***************************************************************************)
(* Claims about the Optimizer, checked under SpecOptimizer.  Differences   *)
(* and products of doubles in the claims are exact numbers (ExactAdd,      *)
(* ExactMul), compared with Cmp.                                           *)
(***************************************************************************)
Constructed == n # None
Called == Constructed /\ update_arg # None

\* First training step of the cycle that holds the last call's training step.
CycleStart == (update_arg \div n) * n

\* What the schedule returns for the last call's training step: the rate an
\* anneal_learning_rate or a returning update has put in place.
ScheduledRate == mu_s(self, update_arg)

\* The larger of |mu_i| and |mu_f|.
MaxAbsRate == FMax(FAbs(mu_i), FAbs(mu_f))

\* What the roundings of one evaluation of mu_s can add up to: 2^-49 times
\* the larger rate, 8 units in the last place of a double of that size.
RoundingSlack == ExactMul(Pow2(0 - 49), MaxAbsRate)

\* |x - y| <= slack
Within(x, y, slack) == Cmp(FAbs(ExactAdd(x, FNeg(y))), slack) <= 0

\* C1 as stated: in every cycle of n steps, for every n >= 1, the schedule is
\* mu_f at the first step and some step of the cycle returns mu_i.
CE_C1 ==
    Called =>
        /\ mu_s(self, CycleStart) = mu_f
        /\ \E k \in 0..(n - 1) : mu_s(self, CycleStart + k) = mu_i

\* C1 amended: for every n >= 1 the schedule is exactly mu_f at the first step
\* of each cycle; for even n it is the double mu_f + (mu_i - mu_f) at step
\* n / 2 of each cycle, which is within the rounding slack of mu_i, and is
\* mu_i itself for the default rates.
Thm_C1 ==
    Called =>
        /\ mu_s(self, CycleStart) = mu_f
        /\ update_arg % n = 0 => ScheduledRate = mu_f
        /\ n % 2 = 0 =>
              LET peak == mu_s(self, CycleStart + n \div 2)
              IN  /\ peak = FAdd(mu_f, FSub(mu_i, mu_f))
                  /\ Within(peak, mu_i, RoundingSlack)
                  /\ update_arg % n = n \div 2 => ScheduledRate = peak
                  /\ (mu_i = DefaultMuI /\ mu_f = DefaultMuF) => peak = mu_i

\* The peak of a later cycle of an even n >= 4 has been set as the rate, and
\* it is a double next to mu_i, not mu_i.
Wit_C1 ==
    /\ Called /\ n % 2 = 0 /\ n >= 4
    /\ update_arg >= n /\ update_arg % n = n \div 2
    /\ alpha = ScheduledRate
    /\ alpha # mu_i /\ Within(alpha, mu_i, RoundingSlack)

\* The rate one training step after the last call's, minus the rate at it.
NextDelta == ExactAdd(mu_s(self, update_arg + 1), FNeg(ScheduledRate))

\* n times the change of one step as C2 states it: 2 * (mu_i - mu_f) while
\* s mod n < n / 2, and 2 * (mu_f - mu_i) otherwise.
StatedSlope ==
    IF 2 * (update_arg % n) < n
    THEN ExactMul(FromInt(2), ExactAdd(mu_i, FNeg(mu_f)))
    ELSE ExactMul(FromInt(2), ExactAdd(mu_f, FNeg(mu_i)))

\* C2 as stated: for every n >= 1 and every step s, |mu_s(s+1) - mu_s(s)| is
\* 2 * |mu_i - mu_f| / n, toward mu_i while s mod n < n / 2 and back toward
\* mu_f otherwise.
CE_C2 ==
    Called => Cmp(ExactMul(FromInt(n), NextDelta), StatedSlope) = 0

\* The step of an odd n whose successor mirrors it: s mod n = (n - 1) / 2
\* (every step, for n = 1).
MirrorStep == n % 2 = 1 /\ update_arg % n = (n - 1) \div 2

\* C2 amended: for every n >= 1 and every step s that is not the mirror step
\* of an odd n, mu_s(s+1) - mu_s(s) is 2 * (mu_i - mu_f) / n while
\* s mod n < n / 2 and 2 * (mu_f - mu_i) / n otherwise, up to twice the
\* rounding slack, and never has the other sign; at the mirror step of an odd
\* n the two rates differ by no more than the rounding slack, and for n = 1
\* not at all.
Thm_C2 ==
    Called =>
        IF MirrorStep
        THEN /\ Within(NextDelta, Zero, RoundingSlack)
             /\ n = 1 => IsZero(NextDelta)
        ELSE /\ Within(ExactMul(FromInt(n), NextDelta), StatedSlope,
                       ExactMul(FromInt(2 * n), RoundingSlack))
             /\ IsZero(NextDelta) \/ NextDelta.sign = StatedSlope.sign

\* The rate is that of the last step of a cycle of an odd n >= 3, so that the
\* next step wraps to the start of the next cycle, and the change has the
\* stated sign but is not exactly the stated one.
Wit_C2 ==
    /\ Called /\ n % 2 = 1 /\ n >= 3 /\ mu_i # mu_f
    /\ update_arg % n = n - 1 /\ alpha = ScheduledRate
    /\ ~IsZero(NextDelta) /\ NextDelta.sign = StatedSlope.sign
    /\ Cmp(ExactMul(FromInt(n), NextDelta), StatedSlope) # 0

\* C3 as stated: the schedule has period n, mu_s(s + n) = mu_s(s), and is
\* symmetric about the midpoint of a cycle, mu_s(k) = mu_s(n - k) for 0 < k < n.
CE_C3 ==
    Called =>
        /\ mu_s(self, update_arg + n) = ScheduledRate
        /\ update_arg % n > 0
              => mu_s(self, n - (update_arg % n)) = ScheduledRate

\* C3 amended: the schedule has period n exactly, and mu_s(k) and mu_s(n - k)
\* differ by no more than the rounding slack for 0 < k < n.
Thm_C3 ==
    Called =>
        /\ mu_s(self, update_arg + n) = ScheduledRate
        /\ mu_s(self, update_arg % n) = ScheduledRate
        /\ update_arg % n > 0 =>
              Within(mu_s(self, n - (update_arg % n)), ScheduledRate,
                     RoundingSlack)

\* A rate strictly inside one half of a later cycle that is not the double the
\* mirrored step returns.
Wit_C3 ==
    /\ Called /\ n >= 3 /\ mu_i # mu_f
    /\ update_arg > n /\ update_arg % n > 0 /\ 2 * (update_arg % n) # n
    /\ alpha = ScheduledRate
    /\ mu_s(self, n - (update_arg % n)) # alpha
    /\ Within(mu_s(self, n - (update_arg % n)), alpha, RoundingSlack)

\* C8 as stated: once the Optimizer is constructed, and after any update or
\* anneal_learning_rate call, alpha lies between mu_f and mu_i inclusive.
CE_C8 ==
    Constructed =>
        /\ Cmp(FMin(mu_i, mu_f), learning_rate) <= 0
        /\ Cmp(learning_rate, FMax(mu_i, mu_f)) <= 0

\* C8 amended: alpha is never further than the rounding slack below the
\* smaller nor above the larger of mu_i and mu_f.
Thm_C8 ==
    Constructed =>
        /\ Cmp(ExactAdd(FMin(mu_i, mu_f), FNeg(RoundingSlack)),
               learning_rate) <= 0
        /\ Cmp(learning_rate,
               ExactAdd(FMax(mu_i, mu_f), RoundingSlack)) <= 0

\* After an update at a step inside a cycle the rate is a double below both
\* mu_i and mu_f.
Wit_C8 ==
    /\ Called /\ adam_t >= 1 /\ mu_i # mu_f
    /\ update_arg % n > 0
    /\ Cmp(alpha, FMin(mu_i, mu_f)) < 0

(***************************************************************************)
(* Claims about preprocess, checked under SpecPreprocess.                  *)
(***************************************************************************)

\* C6: for num_bits_x in 1..8 and a pixel p in 0..255 the value returned is
\* k / 2^num_bits_x - 0.5 with k = floor(p / 2^(8 - num_bits_x)), one of the
\* levels k in 0..2^num_bits_x - 1, and lies in [-0.5, 0.5); the call raises
\* NotImplementedError instead of returning exactly when ndim is not 3 or 4.
Thm_C6 ==
    result # NotCalled =>
        /\ result.status \in {"returned", "NotImplementedError"}
        /\ result.status = "NotImplementedError" <=> image.ndim \notin {3, 4}
        /\ result.status = "returned" =>
              /\ result.den > 0
              /\ \E k \in 0..(2 ^ num_bits_x - 1) :
                    /\ k * 2 ^ (8 - num_bits_x) <= image.pixel
                    /\ image.pixel < (k + 1) * 2 ^ (8 - num_bits_x)
                    /\ result.num * 2 * 2 ^ num_bits_x
                          = (2 * k - 2 ^ num_bits_x) * result.den
              /\ -result.den <= 2 * result.num
              /\ 2 * result.num < result.den

\* Pixel 255 at 5 bits falls to the top level, 31 / 32 - 0.5 = 15 / 32.
Wit_C6 ==
    /\ result.status = "returned" /\ image.ndim = 4
    /\ num_bits_x = 5 /\ image.pixel = 255
    /\ result.num * 32 = 15 * result.den

(***************************************************************************)
(* Claims about main, checked under Spec.                                  *)
(***************************************************************************)

\* C4: encoder.save follows every update whose 1-based batch index is a
\* multiple of 100 and the last batch of every iteration; never more than 100
\* updates have happened since the last save; a run of at least one iteration
\* of at least one batch that ends normally ends with nothing unsaved.
Thm_C4 ==
    /\ since_save <= SaveInterval
    /\ (pc = "batch" /\ batch_index > 0 /\ batch_index % SaveInterval = 0)
          => since_save = 0
    /\ (pc = "iteration" /\ iteration > 0) => since_save = 0
    /\ pc = "iteration"
          => saves = iteration * (num_batches \div SaveInterval + 1)
    /\ (pc = "done" /\ args.total_iteration >= 1 /\ num_batches >= 1)
          => (since_save = 0 /\ saves >= 1 /\ adam_t >= 1)

\* Two iterations of more than 100 batches each have ended: in each, a save
\* after every 100th batch and one at its end.
Wit_C4 ==
    /\ pc = "done" /\ iteration = 2 /\ num_batches > SaveInterval
    /\ saves = 2 * (num_batches \div SaveInterval + 1)
    /\ since_save = 0 /\ adam_t = 2 * num_batches

\* C5 as stated: every failure of a call made by main ends the run.
CE_C5 == failed # {} => pc = "raised"

\* C5 amended: every failure of a call made by main other than os.mkdir ends
\* the run with the exception, and nothing runs after it; a failure of
\* os.mkdir is caught and main goes on.
Thm_C5 ==
    /\ failed \ {"os.mkdir"} # {} => (pc = "raised" /\ exception # "none")
    /\ exception # "none" => pc = "raised"
    /\ pc = "raised" => ~ENABLED Next

\* os.mkdir failed, main went on, and a failing hyperparams.save ended it.
Wit_C5 ==
    /\ pc = "raised" /\ exception = "OSError"
    /\ failed = {"os.mkdir", "hyperparams.save"}

\* C7 as stated: the Adam update of update(s) runs with alpha = mu_s(s).
CE_C7 ==
    (adam_t # None /\ adam_t >= 1 /\ update_calls = adam_t)
        => adam_alpha = mu_s(self, update_arg)

\* C9: current_training_step starts at 0 and grows by one with each
\* optimizer.update that returns and with nothing else: the k-th update call
\* of the run is made with training step k - 1, and after i iterations of B
\* batches the counter is i * B.
Thm_C9 ==
    current_training_step # None =>
        /\ current_training_step = adam_t
        /\ update_calls >= 1 => update_arg = update_calls - 1
        /\ update_calls = 0 => update_arg = None
        /\ update_calls = IF "optimizer.update" \in failed
                          THEN adam_t + 1 ELSE adam_t
        /\ pc \in {"iteration", "done"}
              => current_training_step = iteration * num_batches
        /\ pc = "batch"
              => current_training_step = iteration * num_batches + batch_index
        /\ pc = "checkpoint"
              => current_training_step
                    = iteration * num_batches + batch_index + 1

\* The first update of the second iteration was called with training step B.
Wit_C9 ==
    /\ pc = "checkpoint" /\ iteration = 1 /\ batch_index = 0
    /\ num_batches >= 3
    /\ update_arg = num_batches /\ current_training_step = num_batches + 1

====
